---- MODULE Spec2Model ----
(***************************************************************************)
(* Model of the rug237 crate (src/src/lib.rs): the FP237 extended value    *)
(* (an arbitrary-precision binary float of precision P paired with the     *)
(* ternary rounding witness), its decoder, its random sampler and the      *)
(* witness-propagating arithmetic wrappers.                                *)
(*                                                                         *)
(* The format is modelled at a reduced size: the significand width, the    *)
(* maximum exponent and the width of one half of the significand (u128 in  *)
(* the source) are the definitions ScaledP, ScaledEMAX and HalfBits below. *)
(* Every other format parameter is derived from them exactly as the source *)
(* derives it.                                                             *)
(***************************************************************************)
EXTENDS Integers, Sequences, FiniteSets, TLC

\* ---------------------------------------------------------------- bounds
\* Significand width of the scaled format (237 in the source).
ScaledP == 4
\* Maximum exponent of the scaled format (262143 in the source).
ScaledEMAX == 3
\* Width of one half of the decoded significand (128, the width of u128).
HalfBits == 2
\* How far below/above the representable exponents constructed values reach.
ExpMargin == 2

\* ------------------------------------------------------ format parameters
P == ScaledP
PM1 == P - 1
EMAX == ScaledEMAX
EMIN == 1 - EMAX
MIN_EXP_SUBNORMAL == EMIN - PM1

\* Integer::from(u128::MAX) + 1, the radix of the two significand halves.
b == 2^HalfBits
\* u128::MAX
U128_MAX == b - 1

\* std::cmp::Ordering, the rounding witness.
Ordering == {"Less", "Equal", "Greater"}

\* ------------------------------------------------------- integer helpers
RECURSIVE BitLen(_)
\* Number of significant bits of n >= 0 (Integer::significant_bits,
\* 128 - leading_zeros for a u128).
BitLen(n) == IF n = 0 THEN 0 ELSE 1 + BitLen(n \div 2)

Abs(n) == IF n < 0 THEN -n ELSE n

\* ----------------------------------------------------------------- Float
\* A rug Float of precision P: kind, sign bit and, when finite and nonzero,
\* value = m * 2^e with 2^(P-1) <= m < 2^P (MPFR keeps the significand
\* normalised to the precision).  Zero has m = 0, e = 0.
FloatFinite(s, m, e) == [k |-> "fin", s |-> s, m |-> m, e |-> e]
FloatZero(s) == FloatFinite(s, 0, 0)
FloatInf(s) == [k |-> "inf", s |-> s, m |-> 0, e |-> 0]
FloatNaN == [k |-> "nan", s |-> 0, m |-> 0, e |-> 0]

\* Float::is_sign_negative
is_sign_negative(f) == f.s = 1

\* Float::is_finite
is_finite(f) == f.k = "fin"

\* Float::to_integer_exp: Some((i, e)) with f = i * 2^e, i the signed
\* significand taken as an integer of the float's precision; (0, 0) for a
\* zero; None for NaN and the infinities.
to_integer_exp_total(f) ==
  [some |-> TRUE, i |-> IF f.s = 1 THEN -f.m ELSE f.m, e |-> f.e]
to_integer_exp(f) ==
  IF ~is_finite(f) THEN [some |-> FALSE, i |-> 0, e |-> 0]
  ELSE [some |-> TRUE, i |-> IF f.s = 1 THEN -f.m ELSE f.m, e |-> f.e]

\* The FP237 struct.
FP237(f, o) == [f |-> f, o |-> o]

\* ------------------------------------------- the oracle's single rounding
Max(p, q) == IF p > q THEN p ELSE q

\* The witness with respect to the signed value: rounding the magnitude of a
\* negative value up stores a value below the exact one.
Signed(s, o) ==
  IF s = 0 \/ o = "Equal" THEN o ELSE IF o = "Less" THEN "Greater" ELSE "Less"

\* Float::with_val_round(prec, v, Round::Nearest) for an exact magnitude
\* v = (n / d) * 2^e with n, d > 0: the significand of prec bits, its
\* exponent, and the direction the magnitude moved (Equal when v fits).
\* k scales the quotient to more than prec bits; the bits below prec and the
\* remainder of the division decide the rounding, ties to even.
RoundNearest(n, d, e, prec) ==
  LET k == Max(0, prec + 1 + BitLen(d) - BitLen(n))
      quot == (n * 2^k) \div d
      sticky == (n * 2^k) % d
      drop == BitLen(quot) - prec
      q == quot \div 2^drop
      r == quot % 2^drop
      half == 2^(drop - 1)
      exact == r = 0 /\ sticky = 0
      up == r > half \/ (r = half /\ (sticky > 0 \/ q % 2 = 1))
      q2 == IF up THEN q + 1 ELSE q
      o == IF exact THEN "Equal" ELSE IF up THEN "Greater" ELSE "Less"
  IN IF q2 = 2^prec
     THEN [m |-> 2^(prec - 1), e |-> e - k + drop + 1, o |-> o]
     ELSE [m |-> q2, e |-> e - k + drop, o |-> o]

\* The (Float, Ordering) pair of a rounded nonzero result of sign s.
Rounded(s, r) == FP237(FloatFinite(s, r.m, r.e), Signed(s, r.o))

XorSign(s, t) == IF s = t THEN 0 ELSE 1

\* impl Mul for &FP237 (finite operands): the exact product, rounded once.
MulFP(u, v) ==
  LET s == XorSign(u.f.s, v.f.s)
  IN IF u.f.m = 0 \/ v.f.m = 0 THEN FP237(FloatZero(s), "Equal")
     ELSE Rounded(s, RoundNearest(u.f.m * v.f.m, 1, u.f.e + v.f.e, P))

\* impl Div for &FP237 (finite operands): the exact quotient, rounded once;
\* 0/0 is NaN and v/0 an infinity, both stored exactly.
DivFP(u, v) ==
  LET s == XorSign(u.f.s, v.f.s)
  IN IF v.f.m = 0
     THEN (IF u.f.m = 0 THEN FP237(FloatNaN, "Equal")
           ELSE FP237(FloatInf(s), "Equal"))
     ELSE IF u.f.m = 0 THEN FP237(FloatZero(s), "Equal")
     ELSE Rounded(s, RoundNearest(u.f.m, v.f.m, u.f.e - v.f.e, P))

Min(p, q) == IF p < q THEN p ELSE q

\* The significand with the sign of the float.
SignedSig(f) == IF f.s = 1 THEN -f.m ELSE f.m

\* The exact sum u + v (neg = 0) or difference u - v (neg = 1) of finite
\* operands, rounded once.  An exact zero sum is +0 in rounding to nearest,
\* except that two negative zeros add to -0.
AddSignedMagnitudeWitness(u, v, neg) ==
  LET sv == IF neg = 1 THEN 1 - v.f.s ELSE v.f.s
      eu == IF u.f.m = 0 THEN v.f.e ELSE u.f.e
      ev == IF v.f.m = 0 THEN u.f.e ELSE v.f.e
      k == Min(eu, ev)
      n == SignedSig(u.f) * 2^(eu - k)
             + (IF sv = 1 THEN -v.f.m ELSE v.f.m) * 2^(ev - k)
      s == IF n < 0 THEN 1 ELSE 0
      r == RoundNearest(Abs(n), 1, k, P)
  IN IF n = 0
     THEN FP237(FloatZero(IF u.f.m = 0 /\ v.f.m = 0 /\ u.f.s = 1 /\ sv = 1
                          THEN 1 ELSE 0), "Equal")
     ELSE FP237(FloatFinite(s, r.m, r.e), r.o)
AddSigned(u, v, neg) ==
  LET sv == IF neg = 1 THEN 1 - v.f.s ELSE v.f.s
      eu == IF u.f.m = 0 THEN v.f.e ELSE u.f.e
      ev == IF v.f.m = 0 THEN u.f.e ELSE v.f.e
      k == Min(eu, ev)
      n == SignedSig(u.f) * 2^(eu - k)
             + (IF sv = 1 THEN -v.f.m ELSE v.f.m) * 2^(ev - k)
      s == IF n < 0 THEN 1 ELSE 0
  IN IF n = 0
     THEN FP237(FloatZero(IF u.f.m = 0 /\ v.f.m = 0 /\ u.f.s = 1 /\ sv = 1
                          THEN 1 ELSE 0), "Equal")
     ELSE Rounded(s, RoundNearest(Abs(n), 1, k, P))

\* impl Add for &FP237 (finite operands)
AddFP(u, v) == AddSigned(u, v, 0)

\* impl Sub for &FP237 (finite operands)
SubFP(u, v) == AddSigned(u, v, 1)

\* impl Rem for &FP237: &self.f % &rhs.f is the remainder of the truncated
\* quotient (mpfr_fmod), x - trunc(x / y) * y, with the sign of x; it is then
\* rounded by with_val_round.  NaN for y = 0 or x infinite, x for y infinite.
RemFloored(u, v) ==
  LET k == Min(u.f.e, v.f.e)
      n == u.f.m * 2^(u.f.e - k)
      d == v.f.m * 2^(v.f.e - k)
      r == IF u.f.s = v.f.s \/ n % d = 0 THEN n % d ELSE d - (n % d)
  IN IF u.f.k # "fin" \/ v.f.k = "nan" \/ (v.f.k = "fin" /\ v.f.m = 0)
     THEN FP237(FloatNaN, "Equal")
     ELSE IF v.f.k = "inf" \/ u.f.m = 0 THEN FP237(u.f, "Equal")
     ELSE IF r = 0 THEN FP237(FloatZero(v.f.s), "Equal")
     ELSE Rounded(v.f.s, RoundNearest(r, 1, k, P))
RemFP(u, v) ==
  LET k == Min(u.f.e, v.f.e)
      n == u.f.m * 2^(u.f.e - k)
      d == v.f.m * 2^(v.f.e - k)
      r == n % d
  IN IF u.f.k # "fin" \/ v.f.k = "nan" \/ (v.f.k = "fin" /\ v.f.m = 0)
     THEN FP237(FloatNaN, "Equal")
     ELSE IF v.f.k = "inf" \/ u.f.m = 0 THEN FP237(u.f, "Equal")
     ELSE IF r = 0 THEN FP237(FloatZero(u.f.s), "Equal")
     ELSE Rounded(u.f.s, RoundNearest(r, 1, k, P))

\* Float::abs
FloatAbs(f) == [f EXCEPT !.s = 0]

\* FP237::abs
abs(self) == FP237(FloatAbs(self.f), "Equal")

\* The integer square root of n.
isqrt(n) == CHOOSE r \in 0 .. n : r * r <= n /\ n < (r + 1) * (r + 1)

\* Float::sqrt by value: the root rounded to nearest at the precision of the
\* operand; the ordering of that rounding is not returned.  The operand is
\* brought to an even exponent and widened by 2 * P bits, so that its integer
\* root has more than P + 1 bits and one sticky bit below them decides.
FloatSqrt(f) ==
  IF f.k = "nan" \/ (f.s = 1 /\ ~(f.k = "fin" /\ f.m = 0)) THEN FloatNaN
  ELSE IF f.k = "inf" \/ f.m = 0 THEN f
  ELSE LET odd == f.e % 2 = 1
           n == (IF odd THEN 2 * f.m ELSE f.m) * 2^(2 * P)
           e == IF odd THEN f.e - 1 ELSE f.e
           root == isqrt(n)
           sticky == IF root * root < n THEN 1 ELSE 0
           r == RoundNearest(2 * root + sticky, 1, (e \div 2) - P - 1, P)
       IN FloatFinite(0, r.m, r.e)

\* FP237::sqrt
sqrt(self) == FP237(FloatSqrt(self.f), "Equal")

\* A term of an exact sum: n * 2^e with n signed; s is the sign the term
\* has when it is zero.
ProductTerm(f, g) ==
  [n |-> SignedSig(f) * SignedSig(g), e |-> f.e + g.e, s |-> XorSign(f.s, g.s)]
FloatTerm(f) == [n |-> SignedSig(f), e |-> f.e, s |-> f.s]

\* The exact sum of two terms rounded once to P bits.
FusedSum(p, q) ==
  LET ep == IF p.n = 0 THEN q.e ELSE p.e
      eq == IF q.n = 0 THEN p.e ELSE q.e
      k == Min(ep, eq)
      n == p.n * 2^(ep - k) + q.n * 2^(eq - k)
  IN IF n = 0
     THEN FP237(FloatZero(IF p.n = 0 /\ q.n = 0 /\ p.s = 1 /\ q.s = 1
                          THEN 1 ELSE 0), "Equal")
     ELSE Rounded(IF n < 0 THEN 1 ELSE 0, RoundNearest(Abs(n), 1, k, P))

\* FP237::fma: &self.f * &m.f + &a.f is one fused operation, rounded by
\* with_val_round.
fmaNonFused(self, m, a) == AddFP(MulFP(self, m), a)
fma(self, m, a) == FusedSum(ProductTerm(self.f, m.f), FloatTerm(a.f))

\* FP237::sos: mul_add_mul by value rounds self^2 + other^2 to the precision
\* of self and returns no ordering; with_val_round then copies a value that
\* already has precision P.
sos(self, other) ==
  LET f == FusedSum(ProductTerm(self.f, self.f),
                    ProductTerm(other.f, other.f)).f
      r == RoundNearest(f.m, 1, f.e, P)
  IN IF f.m = 0 THEN FP237(f, "Equal")
     ELSE FP237(FloatFinite(f.s, r.m, r.e), Signed(f.s, r.o))

\* ------------------------------------------------ equality and ordering
\* Float::partial_cmp: None when either side is NaN; otherwise the order of
\* the signed values, the two zeros being equal.
FloatCmp(f, g) ==
  LET k == Min(f.e, g.e)
      p == IF f.k = "inf" THEN (IF f.s = 1 THEN -1 ELSE 1) ELSE 0
      q == IF g.k = "inf" THEN (IF g.s = 1 THEN -1 ELSE 1) ELSE 0
      u == SignedSig(f) * 2^(f.e - k)
      v == SignedSig(g) * 2^(g.e - k)
  IN IF f.k = "nan" \/ g.k = "nan" THEN "None"
     ELSE IF p # q THEN (IF p < q THEN "Less" ELSE "Greater")
     ELSE IF p # 0 THEN "Equal"
     ELSE IF u < v THEN "Less" ELSE IF u > v THEN "Greater" ELSE "Equal"

\* impl PartialOrd for FP237
partial_cmp(self, other) == FloatCmp(self.f, other.f)

\* #[derive(PartialEq)] on FP237: every field is compared.
eq(self, other) ==
  FloatCmp(self.f, other.f) = "Equal" /\ self.o = other.o

\* -------------------------------------------------- random_from_exp_range
HI_HIDDEN_BIT == 2^(PM1 - HalfBits)
HI_MAX == HI_HIDDEN_BIT - 1

\* Float::with_val(P, fr): a float of another precision brought to P bits.
ToPrecP(s, r) ==
  LET q == RoundNearest(r.m, 1, r.e, P) IN FloatFinite(s, q.m, q.e)

\* random_from_exp_range for the draws s (sign), t (exponent), h and l (the
\* two halves of the significand).  For t < 0 the factor p is
\* Float::i_exp(2, t), the integer 2 times 2^t, and the product c * p is
\* rounded to prec bits before it is brought to precision P; for t >= 0 the
\* integer c * 2^t is rounded to P bits.
random_from_exp_range(s, t, h, l) ==
  LET normal == t >= EMIN
      t2 == IF normal THEN t - PM1 ELSE t
      h2 == IF normal THEN h + HI_HIDDEN_BIT ELSE h
      msb == IF h # 0 THEN BitLen(h) ELSE HalfBits + BitLen(l)
      prec == IF normal THEN P ELSE msb
      c == h2 * b + l
      r == IF t2 < 0 THEN RoundNearest(c, 1, t2 + 1, prec)
           ELSE RoundNearest(c * 2^t2, 1, 0, P)
  IN IF c = 0 THEN FP237(FloatZero(s), "Equal")
     ELSE FP237(ToPrecP(s, r), r.o)

\* ---------------------------------------------------------------- decode
\* What decode evaluates to: a triple, or the panic of its last match arm.
Triple(s, e, h, l) == [st |-> "ok", s |-> s, e |-> e, h |-> h, l |-> l]
Panic == [st |-> "panic", s |-> 0, e |-> 0, h |-> 0, l |-> 0]
NoTriple == [st |-> "none", s |-> 0, e |-> 0, h |-> 0, l |-> 0]

\* The overflow test on the raw exponent.
OverflowsShifted(e) == e + PM1 > EMAX - PM1
OverflowsInclusive(e) == e >= EMAX - PM1
OverflowsNever(e) == FALSE
Overflows(e) == e > EMAX - PM1

RECURSIVE ReduceKeepExp(_, _)
ReduceKeepExp(i, e) ==
  IF i % 2 = 0 THEN ReduceKeepExp(i \div 2, e) ELSE [i |-> i, e |-> e]
RECURSIVE ReduceLoop(_, _)
\* while i.is_even() { i >>= 1; e += 1; }   (entered with i # 0)
ReduceLoop(i, e) ==
  IF i % 2 = 0 THEN ReduceLoop(i \div 2, e + 1) ELSE [i |-> i, e |-> e]

\* if reduce && i != 0 { ... }
ReduceAlways(reduce, i, e) ==
  IF i # 0 THEN ReduceLoop(i, e) ELSE [i |-> i, e |-> e]
Reduce(reduce, i, e) ==
  IF reduce /\ i # 0 THEN ReduceLoop(i, e) ELSE [i |-> i, e |-> e]

\* The rounding condition of the subnormal path; i is the shifted mantissa.
RoundUpTiesToEven(rem, tie, o, i) ==
  rem > tie \/ (rem = tie /\ i % 2 = 1)
RoundUpAboveTieOnly(rem, tie, o, i) == rem > tie
RoundUpMisgrouped(rem, tie, o, i) ==
  (rem > tie \/ rem = tie) /\ (o # "Greater" \/ i % 2 = 1)
RoundUpAnyRemainder(rem, tie, o, i) == rem > 0
RoundUpOnTieOnly(rem, tie, o, i) ==
  rem = tie /\ (o # "Greater" \/ i % 2 = 1)
RoundUp(rem, tie, o, i) ==
  rem > tie \/ (rem = tie /\ (o # "Greater" \/ i % 2 = 1))

\* The subnormal path, entered with e < MIN_EXP_SUBNORMAL.
SubnormalRoundKeepExp(i, e, o) ==
  LET shift == MIN_EXP_SUBNORMAL - e
      tie == 2^(shift - 1)
      rem == i % 2^shift
      shifted == i \div 2^shift
  IN [i |-> IF RoundUp(rem, tie, o, shifted) THEN shifted + 1 ELSE shifted,
      e |-> e]
SubnormalRoundParityBeforeShift(i, e, o) ==
  LET shift == MIN_EXP_SUBNORMAL - e
      tie == 2^(shift - 1)
      rem == i % 2^shift
      shifted == i \div 2^shift
  IN [i |-> IF RoundUp(rem, tie, o, i) THEN shifted + 1 ELSE shifted,
      e |-> MIN_EXP_SUBNORMAL]
SubnormalRound(i, e, o) ==
  LET shift == MIN_EXP_SUBNORMAL - e
      mask == 2^shift - 1
      tie == 2^(shift - 1)
      rem == i % (mask + 1)
      shifted == i \div 2^shift
  IN [i |-> IF RoundUp(rem, tie, o, shifted) THEN shifted + 1 ELSE shifted,
      e |-> MIN_EXP_SUBNORMAL]

\* if e < MIN_EXP_SUBNORMAL { ... }
ToGrid(i, e, o) ==
  IF e < MIN_EXP_SUBNORMAL THEN SubnormalRound(i, e, o) ELSE [i |-> i, e |-> e]

\* The tail of decode: the zero triple, or the split into two halves; the
\* u128 conversions panic (unwrap) when a half does not fit.
SplitNoZero(s, i, e) == Triple(s, e, i \div b, i % b)
Split(s, i, e) ==
  IF i = 0 THEN Triple(s, 0, 0, 0)
  ELSE IF i \div b > U128_MAX THEN Panic
  ELSE Triple(s, e, i \div b, i % b)

decode(self, reduce) ==
  LET ie == to_integer_exp(self.f)
      s == IF is_sign_negative(self.f) THEN 1 ELSE 0
  IN IF ~ie.some THEN Panic
     ELSE IF Overflows(ie.e) THEN Triple(s, EMAX + 1, 0, 0)
     ELSE LET r == Reduce(reduce, Abs(ie.i), ie.e)
              g == ToGrid(r.i, r.e, self.o)
          IN Split(s, g.i, g.e)

\* ------------------------------------------------------------ the values
\* Finite floats of precision P whose raw exponent lies in the window the
\* decoder distinguishes: from below everything that rounds to zero up to
\* beyond the overflow threshold.
MinRawExp == MIN_EXP_SUBNORMAL - P - ExpMargin
MaxRawExp == EMAX - PM1 + ExpMargin
Significands == (2^PM1) .. (2^P - 1)
FiniteFloats ==
  {FloatFinite(s, m, e) : s \in {0, 1}, m \in Significands,
                          e \in MinRawExp .. MaxRawExp}
    \cup {FloatZero(s) : s \in {0, 1}}

\* The values of the target format as floats of precision P: the normal
\* values, the subnormal values n * 2^MIN_EXP_SUBNORMAL and the zeros.
Normalised(s, n, e) ==
  FloatFinite(s, n * 2^(P - BitLen(n)), e - (P - BitLen(n)))
TargetFloats ==
  {FloatFinite(s, m, e) : s \in {0, 1}, m \in Significands,
                          e \in MIN_EXP_SUBNORMAL .. (EMAX - PM1)}
    \cup {Normalised(s, n, MIN_EXP_SUBNORMAL) :
            s \in {0, 1}, n \in 1 .. (2^PM1 - 1)}
    \cup {FloatZero(s) : s \in {0, 1}}

\* ----------------------------------------------------------------- state
\* pc: the position of the run; x, y, z: the operands; op: the operation that
\* produced val; val: the value handed to decode; reduced: decode's reduce
\* argument; res: what decode returned.
\* exp_range, drawn: the sampler's argument and its random draws.
\* cmp: the outcome of comparing val with the non-fused result.
VARIABLES pc, x, y, z, op, val, reduced, res, exp_range, drawn, cmp

vars == <<pc, x, y, z, op, val, reduced, res, exp_range, drawn, cmp>>

NoRange == [lo |-> 0, hi |-> 0]
NoDraw == [s |-> 0, t |-> 0, h |-> 0, l |-> 0]

NoValue == FP237(FloatZero(0), "Equal")
NoCmp == [eq |-> FALSE, ord |-> "unset"]

\* A value built as a struct literal FP237 { f, o }, as the tests do, then
\* handed to decode.
Init ==
  /\ pc = "value"
  /\ val \in {FP237(f, o) : f \in FiniteFloats, o \in Ordering}
  /\ x = NoValue
  /\ y = NoValue
  /\ z = NoValue
  /\ op = "literal"
  /\ reduced = FALSE
  /\ res = NoTriple
  /\ exp_range = NoRange
  /\ drawn = NoDraw
  /\ cmp = NoCmp

Decode(reduce) ==
  /\ pc = "value"
  /\ res' = decode(val, reduce)
  /\ reduced' = reduce
  /\ pc' = "decoded"
  /\ UNCHANGED <<x, y, z, op, val, exp_range, drawn, cmp>>

Next == \E reduce \in BOOLEAN : Decode(reduce)

Spec == Init /\ [][Next]_vars

\* Two operands of the target format, an arithmetic operation on them, and
\* the decoding of its result.
InitArith ==
  /\ pc = "operands"
  /\ x \in {FP237(f, "Equal") : f \in TargetFloats}
  /\ y \in {FP237(f, "Equal") : f \in TargetFloats}
  /\ z = NoValue
  /\ op = "none"
  /\ val = NoValue
  /\ reduced = FALSE
  /\ res = NoTriple
  /\ exp_range = NoRange
  /\ drawn = NoDraw
  /\ cmp = NoCmp

Mul ==
  /\ pc = "operands"
  /\ val' = MulFP(x, y)
  /\ op' = "mul"
  /\ pc' = "value"
  /\ UNCHANGED <<x, y, z, reduced, res, exp_range, drawn, cmp>>

Div ==
  /\ pc = "operands"
  /\ val' = DivFP(x, y)
  /\ op' = "div"
  /\ pc' = "value"
  /\ UNCHANGED <<x, y, z, reduced, res, exp_range, drawn, cmp>>

Add ==
  /\ pc = "operands"
  /\ val' = AddFP(x, y)
  /\ op' = "add"
  /\ pc' = "value"
  /\ UNCHANGED <<x, y, z, reduced, res, exp_range, drawn, cmp>>

Sub ==
  /\ pc = "operands"
  /\ val' = SubFP(x, y)
  /\ op' = "sub"
  /\ pc' = "value"
  /\ UNCHANGED <<x, y, z, reduced, res, exp_range, drawn, cmp>>

Rem ==
  /\ pc = "operands"
  /\ val' = RemFP(x, y)
  /\ op' = "rem"
  /\ pc' = "value"
  /\ UNCHANGED <<x, y, z, reduced, res, exp_range, drawn, cmp>>

NextArith ==
  Mul \/ Div \/ Add \/ Sub \/ Rem \/ \E reduce \in BOOLEAN : Decode(reduce)

SpecArith == InitArith /\ [][NextArith]_vars

\* One operand, a unary operation on it, and the decoding of its result.
InitUnary ==
  /\ pc = "operand"
  /\ x \in {FP237(f, o) : f \in FiniteFloats, o \in Ordering}
  /\ y = NoValue
  /\ z = NoValue
  /\ op = "none"
  /\ val = NoValue
  /\ reduced = FALSE
  /\ res = NoTriple
  /\ exp_range = NoRange
  /\ drawn = NoDraw
  /\ cmp = NoCmp

Sqrt ==
  /\ pc = "operand"
  /\ val' = sqrt(x)
  /\ op' = "sqrt"
  /\ pc' = "value"
  /\ UNCHANGED <<x, y, z, reduced, res, exp_range, drawn, cmp>>

AbsValue ==
  /\ pc = "operand"
  /\ val' = abs(x)
  /\ op' = "abs"
  /\ pc' = "value"
  /\ UNCHANGED <<x, y, z, reduced, res, exp_range, drawn, cmp>>

NextUnary == Sqrt \/ AbsValue \/ \E reduce \in BOOLEAN : Decode(reduce)

SpecUnary == InitUnary /\ [][NextUnary]_vars

\* Three operands of precision P in two neighbouring binades, and a fused
\* operation on them.
FusedFloats ==
  {FloatFinite(s, m, e) : s \in {0, 1}, m \in Significands, e \in {-1, 0}}
    \cup {FloatZero(s) : s \in {0, 1}}

InitFused ==
  /\ pc = "operands"
  /\ x \in {FP237(f, "Equal") : f \in FusedFloats}
  /\ y \in {FP237(f, "Equal") : f \in FusedFloats}
  /\ z \in {FP237(f, "Equal") : f \in FusedFloats}
  /\ op = "none"
  /\ val = NoValue
  /\ reduced = FALSE
  /\ res = NoTriple
  /\ exp_range = NoRange
  /\ drawn = NoDraw
  /\ cmp = NoCmp

Fma ==
  /\ pc = "operands"
  /\ val' = fma(x, y, z)
  /\ op' = "fma"
  /\ pc' = "value"
  /\ UNCHANGED <<x, y, z, reduced, res, exp_range, drawn, cmp>>

Sos ==
  /\ pc = "operands"
  /\ val' = sos(x, y)
  /\ op' = "sos"
  /\ pc' = "value"
  /\ UNCHANGED <<x, y, z, reduced, res, exp_range, drawn, cmp>>

\* The fused result compared with the non-fused &(&x * &y) + &a, by == and
\* by partial_cmp.
Compare ==
  /\ pc = "value"
  /\ op = "fma"
  /\ LET t == AddFP(MulFP(x, y), z)
     IN cmp' = [eq |-> eq(val, t), ord |-> partial_cmp(val, t)]
  /\ pc' = "compared"
  /\ UNCHANGED <<x, y, z, op, val, reduced, res, exp_range, drawn>>

NextFused == Fma \/ Sos \/ Compare

SpecFused == InitFused /\ [][NextFused]_vars

\* A value drawn by the sampler for some exponent range, then decoded.
SampleExps == (MIN_EXP_SUBNORMAL - ExpMargin) .. (EMAX + ExpMargin)

InitSample ==
  /\ pc = "start"
  /\ x = NoValue
  /\ y = NoValue
  /\ z = NoValue
  /\ op = "none"
  /\ val = NoValue
  /\ reduced = FALSE
  /\ res = NoTriple
  /\ exp_range = NoRange
  /\ drawn = NoDraw
  /\ cmp = NoCmp

\* random_from_exp_range(&(lo..=hi)); gen_range panics on an empty range.
Sample(lo, hi) ==
  /\ pc = "start"
  /\ lo <= hi
  /\ \E s \in {0, 1}, t \in lo .. hi, h \in 0 .. HI_MAX, l \in 0 .. U128_MAX :
       /\ val' = random_from_exp_range(s, t, h, l)
       /\ drawn' = [s |-> s, t |-> t, h |-> h, l |-> l]
  /\ exp_range' = [lo |-> lo, hi |-> hi]
  /\ op' = "sample"
  /\ pc' = "value"
  /\ UNCHANGED <<x, y, z, reduced, res, cmp>>

NextSample ==
  \/ \E lo \in SampleExps, hi \in SampleExps : Sample(lo, hi)
  \/ \E reduce \in BOOLEAN : Decode(reduce)

SpecSample == InitSample /\ [][NextSample]_vars

\* ------------------------------------------------- properties of decode
\* Magnitudes are compared as integers in units of 2^MinRawExp.
Unit(e) == 2^(e - MinRawExp)
Mag(f) == f.m * Unit(f.e)
Quantum == Unit(MIN_EXP_SUBNORMAL)
Sig(t) == t.h * b + t.l
TripleMag(t) == Sig(t) * Unit(t.e)
Decoded == pc = "decoded"
IsSentinel(t, s) == t = Triple(s, EMAX + 1, 0, 0)
IsZeroTriple(t, s) == t = Triple(s, 0, 0, 0)
\* The decoded value sits exactly half way between two points of the
\* subnormal grid: |val| = (FloorQuanta + 1/2) * 2^MIN_EXP_SUBNORMAL.
OnTie == val.f.m > 0 /\ 2 * Mag(val.f) % Quantum = 0 /\ Mag(val.f) % Quantum # 0
FloorQuanta == Mag(val.f) \div Quantum
\* The number of quanta decode returned (0 for the zero triple).
ResQuanta == IF IsZeroTriple(res, val.f.s) THEN 0
             ELSE IF res.st = "ok" /\ res.e = MIN_EXP_SUBNORMAL THEN Sig(res)
             ELSE -1
LeadExp(f) == f.e + BitLen(f.m) - 1

\* C2: a value exactly on a subnormal tie with witness Equal decodes to the
\* neighbouring grid point whose significand is even.
C2_TieEqualToEven ==
  (Decoded /\ OnTie /\ val.o = "Equal")
    => (ResQuanta \in {FloorQuanta, FloorQuanta + 1} /\ ResQuanta % 2 = 0)

\* C3: a value exactly on a subnormal tie with witness Greater is never
\* incremented, whatever the parity of the shifted mantissa.
C3_TieGreaterNoIncrement ==
  (Decoded /\ OnTie /\ val.o = "Greater") => ResQuanta = FloorQuanta

\* C4 as stated: on a subnormal tie with witness Less the shifted mantissa is
\* incremented if and only if it is odd.
C4_TieLessToEven ==
  (Decoded /\ OnTie /\ val.o = "Less")
    => ResQuanta = (IF FloorQuanta % 2 = 1 THEN FloorQuanta + 1 ELSE FloorQuanta)

\* C4 amended: on a subnormal tie with witness Less the shifted mantissa is
\* always incremented, whatever its parity.
C4_TieLessIncrements ==
  (Decoded /\ OnTie /\ val.o = "Less") => ResQuanta = FloorQuanta + 1
C4_Witness ==
  Decoded /\ OnTie /\ val.o = "Less" /\ FloorQuanta % 2 = 0 /\ FloorQuanta > 0
    /\ ResQuanta = FloorQuanta + 1

\* C5 as stated: decode returns the overflow sentinel exactly when the
\* exponent of the leading bit exceeds EMAX - (P - 1); leading exponent
\* EMAX - P + 2 decodes normally and EMAX - P + 3 decodes to the sentinel.
C5_SentinelAboveEmaxMinusPm1 ==
  (Decoded /\ val.f.m > 0)
    => (IsSentinel(res, val.f.s) <=> LeadExp(val.f) > EMAX - PM1)

\* C5 amended: decode returns the overflow sentinel exactly when the raw
\* exponent of the P-bit mantissa exceeds EMAX - (P - 1), that is when the
\* exponent of the leading bit exceeds EMAX; leading exponent EMAX decodes
\* to a normal triple and EMAX + 1 to the sentinel.
C5_SentinelAboveEmax ==
  (Decoded /\ val.f.m > 0)
    => /\ IsSentinel(res, val.f.s) <=> LeadExp(val.f) > EMAX
       /\ LeadExp(val.f) = EMAX
            => (res.st = "ok" /\ Sig(res) > 0 /\ TripleMag(res) = Mag(val.f))
C5_Witness ==
  Decoded /\ LeadExp(val.f) = EMAX - P + 3 /\ res.st = "ok" /\ Sig(res) > 0

\* C6: decode (either reduce mode) returns the overflow sentinel if and only
\* if |v| >= 2^(EMAX+1); the largest finite value decodes to
\* (0, EMAX-(P-1), (2^(P-128)-1, 2^128-1)) and 2^(EMAX+1) to (0, EMAX+1, (0,0)).
MaxFinite == FloatFinite(0, 2^P - 1, EMAX - PM1)
C6_SentinelIffTooLarge ==
  Decoded
    => /\ IsSentinel(res, val.f.s) <=> Mag(val.f) >= Unit(EMAX + 1)
       /\ val.f = MaxFinite
            => res = Triple(0, EMAX - PM1, 2^(P - HalfBits) - 1, U128_MAX)
       /\ val.f = FloatFinite(0, 2^PM1, EMAX + 1 - PM1)
            => res = Triple(0, EMAX + 1, 0, 0)
C6_Witness ==
  Decoded /\ reduced /\ val.f = FloatFinite(0, 2^PM1, EMAX + 1 - PM1)
    /\ IsSentinel(res, 0)

\* C7: a value whose mantissa is 0 on input or becomes 0 in the subnormal
\* shift-and-round decodes to exactly (sign, 0, (0,0)) with the input's
\* sign; no other result has significand (0,0) except the overflow sentinel.
C7_ZeroCollapse ==
  Decoded
    => /\ (val.f.m = 0 \/ 2 * Mag(val.f) < Quantum
            \/ (2 * Mag(val.f) = Quantum /\ val.o = "Greater"))
            => IsZeroTriple(res, val.f.s)
       /\ (res.st = "ok" /\ Sig(res) = 0)
            => (IsZeroTriple(res, val.f.s) \/ IsSentinel(res, val.f.s))
C7_Witness ==
  Decoded /\ val.f.m > 0 /\ val.f.s = 1 /\ val.o = "Less"
    /\ IsZeroTriple(res, 1)

\* C8: with reduce = true a value m * 2^k, m odd, k >= MIN_EXP_SUBNORMAL,
\* below 2^(EMAX+1) decodes to (sign, k, (m div 2^128, m mod 2^128)).
RECURSIVE TrailingZeros(_)
TrailingZeros(n) == IF n % 2 = 1 THEN 0 ELSE 1 + TrailingZeros(n \div 2)
OddPart(n) == n \div 2^TrailingZeros(n)
C8_ShortestOddForm ==
  (Decoded /\ reduced /\ val.f.m > 0
     /\ val.f.e + TrailingZeros(val.f.m) >= MIN_EXP_SUBNORMAL
     /\ Mag(val.f) < Unit(EMAX + 1))
    => res = Triple(val.f.s, val.f.e + TrailingZeros(val.f.m),
                    OddPart(val.f.m) \div b, OddPart(val.f.m) % b)
C8_Witness ==
  Decoded /\ reduced /\ val.f.e < MIN_EXP_SUBNORMAL /\ val.o = "Greater"
    /\ res = Triple(val.f.s, MIN_EXP_SUBNORMAL, 0, 1)

\* C9: with reduce = false the value n * 2^MIN_EXP_SUBNORMAL, 0 < n < 2^P,
\* decodes to exponent MIN_EXP_SUBNORMAL and significand n for every witness.
C9_SubnormalEncoding ==
  (Decoded /\ ~reduced /\ val.f.m > 0 /\ Mag(val.f) % Quantum = 0
     /\ Mag(val.f) < 2^P * Quantum)
    => /\ res.st = "ok"
       /\ res.s = val.f.s
       /\ res.e = MIN_EXP_SUBNORMAL
       /\ Sig(res) = Mag(val.f) \div Quantum
C9_Witness ==
  Decoded /\ ~reduced /\ val.o = "Greater" /\ Mag(val.f) = 6 * Quantum
    /\ res.e = MIN_EXP_SUBNORMAL /\ Sig(res) = 6

\* ------------------------------------------ properties of the arithmetic
\* The exact magnitude (n / d) * 2^e of sign s rounded once to the target
\* format, ties to even: to a multiple of the subnormal quantum below
\* 2^EMIN, to P bits above, to the overflow sentinel from 2^(EMAX+1) on.
TargetRound(s, n, d, e) ==
  LET r == RoundNearest(n, d, e, P)
      num == n * 2^Max(0, e - MIN_EXP_SUBNORMAL)
      den == d * 2^Max(0, MIN_EXP_SUBNORMAL - e)
      fl == num \div den
      rm == num % den
      quanta == IF 2 * rm > den \/ (2 * rm = den /\ fl % 2 = 1)
                THEN fl + 1 ELSE fl
  IN IF r.e >= MIN_EXP_SUBNORMAL
     THEN (IF r.e > EMAX - PM1 THEN Triple(s, EMAX + 1, 0, 0)
           ELSE Triple(s, r.e, r.m \div b, r.m % b))
     ELSE IF quanta = 0 THEN Triple(s, 0, 0, 0)
     ELSE Triple(s, MIN_EXP_SUBNORMAL, quanta \div b, quanta % b)

\* The exact result of op on the operands, rounded once to the target format.
ExactOnce ==
  LET s == XorSign(x.f.s, y.f.s)
  IN IF x.f.m = 0 THEN Triple(s, 0, 0, 0)
     ELSE IF op = "mul"
     THEN TargetRound(s, x.f.m * y.f.m, 1, x.f.e + y.f.e)
     ELSE TargetRound(s, x.f.m, y.f.m, x.f.e - y.f.e)

\* C1: for operands of the target format and op in {mul, div},
\* decode(x op y, reduce = false) is the exact result rounded once to the
\* target format, round-to-nearest ties-to-even.
C1_TwoStageIsOneRounding ==
  (Decoded /\ ~reduced /\ op \in {"mul", "div"} /\ y.f.m > 0)
    => res = ExactOnce

\* --------------------------------------------- properties of the sampler
\* C10: for every e in [EMIN, EMAX], decode(random_from_exp_range(e..=e),
\* reduce = false) returns an exponent x with x + (P-1) = e and a significand
\* of exactly P bits (high half in [2^(P-1-128), 2^(P-128))); with
\* reduce = true the returned exponent plus (P-1) lies in the range.
C10_RoundTripExponent ==
  (Decoded /\ op = "sample" /\ exp_range.lo = exp_range.hi
     /\ exp_range.lo \in EMIN .. EMAX)
    => /\ res.st = "ok"
       /\ ~reduced => /\ res.e + PM1 = exp_range.lo
                      /\ res.h >= HI_HIDDEN_BIT
                      /\ res.h < 2 * HI_HIDDEN_BIT
       /\ reduced => res.e + PM1 \in exp_range.lo .. exp_range.hi

\* The significand the sampler builds from its draws: the two halves, with
\* the hidden bit added for a normal exponent.
DrawnSig ==
  (IF drawn.t >= EMIN THEN drawn.h + HI_HIDDEN_BIT ELSE drawn.h) * b + drawn.l
Sampled == pc \in {"value", "decoded"} /\ op = "sample"

\* C11: for every exponent of the range and every draw the sampled value is
\* sign * c * 2^k with c the drawn significand, not rounded, and
\* decode(value, reduce = false) reproduces the drawn sign and significand.
C11_SamplerExact ==
  (Decoded /\ op = "sample" /\ ~reduced
     /\ exp_range.lo >= MIN_EXP_SUBNORMAL /\ exp_range.hi <= EMAX)
    => /\ res.st = "ok"
       /\ res.s = drawn.s
       /\ Sig(res) = DrawnSig
       /\ DrawnSig > 0 => OddPart(val.f.m) = OddPart(DrawnSig)

\* C12: every value returned by random_from_exp_range carries witness Equal.
C12_SamplerWitnessEqual ==
  Sampled => val.o = "Equal"

\* C13: for exp_range = MIN_EXP_SUBNORMAL..=EMIN-1 every sampled value is a
\* nonzero subnormal: 2^MIN_EXP_SUBNORMAL <= |f| < 2^EMIN.
C13_SubnormalRange ==
  (Sampled /\ exp_range.lo = MIN_EXP_SUBNORMAL /\ exp_range.hi = EMIN - 1)
    => /\ val.f.m > 0
       /\ Mag(val.f) >= Quantum
       /\ Mag(val.f) < Unit(EMIN)

\* ------------------------------------------------ properties of witnesses
\* The exact result of op on x and y as the rational (n / d) * 2^k, n signed.
ExactResult ==
  LET ex == IF x.f.m = 0 THEN y.f.e ELSE x.f.e
      ey == IF y.f.m = 0 THEN x.f.e ELSE y.f.e
      k == Min(ex, ey)
      sy == IF op = "sub" THEN -SignedSig(y.f) ELSE SignedSig(y.f)
  IN IF op = "mul"
     THEN [n |-> SignedSig(x.f) * SignedSig(y.f), d |-> 1, k |-> x.f.e + y.f.e]
     ELSE IF op = "div"
     THEN [n |-> IF y.f.s = 1 THEN -SignedSig(x.f) ELSE SignedSig(x.f),
           d |-> y.f.m, k |-> x.f.e - y.f.e]
     ELSE [n |-> SignedSig(x.f) * 2^(ex - k) + sy * 2^(ey - k),
           d |-> 1, k |-> k]

\* v is the exact value E rounded once to P bits, to nearest, ties to even,
\* and its witness orders the stored value against E.  With V = m * 2^e the
\* magnitudes V and |E| are compared as the integers stored and exact in a
\* common unit, in which one unit in the last place of V is ulp.
IsRoundedOnce(v, E) ==
  IF E.n = 0 THEN v.f.m = 0 /\ v.o = "Equal"
  ELSE LET m == v.f.m
           e == v.f.e
           stored == m * E.d * 2^Max(0, e - E.k)
           exact == Abs(E.n) * 2^Max(0, E.k - e)
           ulp == E.d * 2^Max(0, e - E.k)
           s == IF E.n < 0 THEN 1 ELSE 0
       IN /\ v.f.k = "fin"
          /\ v.f.s = s
          /\ m >= 2^PM1 /\ m < 2^P
          /\ stored < exact
               => /\ 2 * (exact - stored) <= ulp
                  /\ 2 * (exact - stored) = ulp => m % 2 = 0
                  /\ v.o = (IF s = 0 THEN "Less" ELSE "Greater")
          /\ stored > exact
               => /\ 4 * (stored - exact) <= (IF m = 2^PM1 THEN ulp ELSE 2 * ulp)
                  /\ 4 * (stored - exact) = (IF m = 2^PM1 THEN ulp ELSE 2 * ulp)
                       => m % 2 = 0
                  /\ v.o = (IF s = 0 THEN "Greater" ELSE "Less")
          /\ stored = exact => v.o = "Equal"

Computed == pc \in {"value", "decoded"}

\* C14: add, sub, mul and div return the exact result rounded once to P bits,
\* to nearest ties-to-even, with witness Equal iff the exact result is
\* representable, Less iff the rounded value is below it, Greater iff above.
C14_ArithRoundedOnceWithWitness ==
  (Computed /\ op \in {"add", "sub", "mul", "div"}
     /\ (op = "div" => y.f.m > 0))
    => IsRoundedOnce(val, ExactResult)
C14_Witness ==
  Computed /\ op = "sub" /\ val.f.s = 1 /\ val.o = "Greater"
    /\ IsRoundedOnce(val, ExactResult)

\* The order of the square of the stored root against the operand.
RootOrder ==
  LET sq == val.f.m * val.f.m * 2^Max(0, 2 * val.f.e - x.f.e)
      xx == x.f.m * 2^Max(0, x.f.e - 2 * val.f.e)
  IN IF sq < xx THEN "Less" ELSE IF sq > xx THEN "Greater" ELSE "Equal"

\* C15: for every non-negative x, the witness of sqrt(x) is Less, Equal or
\* Greater as the rounded root is below, equal to or above the exact root.
C15_SqrtWitness ==
  (Computed /\ op = "sqrt" /\ (x.f.s = 0 \/ x.f.m = 0))
    => val.o = RootOrder

\* The exact value of x * x + y * y (op = "sos") or of x * y + z (op = "fma")
\* as the rational (n / d) * 2^k.
ExactFused ==
  LET pn == IF op = "sos" THEN x.f.m * x.f.m ELSE SignedSig(x.f) * SignedSig(y.f)
      pe == IF op = "sos" THEN 2 * x.f.e ELSE x.f.e + y.f.e
      qn == IF op = "sos" THEN y.f.m * y.f.m ELSE SignedSig(z.f)
      qe == IF op = "sos" THEN 2 * y.f.e ELSE z.f.e
      ep == IF pn = 0 THEN qe ELSE pe
      eqq == IF qn = 0 THEN pe ELSE qe
      k == Min(ep, eqq)
  IN [n |-> pn * 2^(ep - k) + qn * 2^(eqq - k), d |-> 1, k |-> k]

\* The stored value is the exact value E, whatever the witness says.
IsExactly(v, E) ==
  IF E.n = 0 THEN v.f.m = 0
  ELSE v.f.m * E.d * 2^Max(0, v.f.e - E.k) = Abs(E.n) * 2^Max(0, E.k - v.f.e)

\* C16: x.sos(y) is the exact x^2 + y^2 rounded once to P bits, ties to even,
\* and its witness gives the direction of that rounding.
C16_SosRoundedOnceWithWitness ==
  (Computed /\ op = "sos") => IsRoundedOnce(val, ExactFused)

\* C17: x.fma(m, a) is the exact x * m + a rounded once to P bits with the
\* matching witness; it equals (x * m) + a in value and witness whenever
\* x * m is representable, and is exact with witness Equal whenever
\* x * m + a is representable.
C17_FmaRoundsOnce ==
  (Computed /\ op = "fma")
    => /\ IsRoundedOnce(val, ExactFused)
       /\ MulFP(x, y).o = "Equal" => val = AddFP(MulFP(x, y), z)
       /\ val.o = "Equal" <=> IsExactly(val, ExactFused)
C17_Witness ==
  Computed /\ op = "fma" /\ MulFP(x, y).o # "Equal" /\ val.f.m > 0
    /\ val.o = "Equal" /\ IsExactly(val, ExactFused)
    /\ val # AddFP(MulFP(x, y), z)

\* The decoded value is a normal value of the target format.
IsNormal(f) == f.k = "fin" /\ f.m > 0 /\ LeadExp(f) >= EMIN /\ LeadExp(f) <= EMAX
FullSig(t) == Sig(t) >= 2^PM1 /\ Sig(t) < 2^P

\* C18 (as stated): decode(v, reduce = false) of a normal value returns an
\* exponent in [EMIN, EMAX] and a significand in [2^(P-1), 2^P).
C18_NormalExponentInEminEmax ==
  (Decoded /\ ~reduced /\ IsNormal(val.f))
    => /\ res.st = "ok"
       /\ res.e >= EMIN /\ res.e <= EMAX
       /\ FullSig(res)

\* C18 (amended): decode(v, reduce = false) of a normal value returns the
\* exponent of the integer significand, which lies in
\* [EMIN - (P-1), EMAX - (P-1)], and a significand in [2^(P-1), 2^P).
C18_NormalExponentOfIntegerSignificand ==
  (Decoded /\ ~reduced /\ IsNormal(val.f))
    => /\ res.st = "ok"
       /\ res.e >= EMIN - PM1 /\ res.e <= EMAX - PM1
       /\ FullSig(res)
       /\ TripleMag(res) = Mag(val.f)
C18_Witness ==
  Decoded /\ ~reduced /\ IsNormal(val.f) /\ val.f.m % 2 = 0
    /\ res.st = "ok" /\ res.e = EMIN - PM1 /\ FullSig(res)

\* C19: for every finite precision-P input, every witness and both reduce
\* modes, decode returns a triple with sign in {0, 1}, exponent in
\* [MIN_EXP_SUBNORMAL, EMAX + 1] and significand below 2^P with both halves
\* in range; the exponent EMAX + 1 comes only with the significand (0, 0).
C19_TripleRange ==
  (Decoded /\ op = "literal")
    => /\ res.st = "ok"
       /\ res.s \in {0, 1}
       /\ res.e >= MIN_EXP_SUBNORMAL /\ res.e <= EMAX + 1
       /\ Sig(res) < 2^P
       /\ res.h >= 0 /\ res.h <= U128_MAX
       /\ res.l >= 0 /\ res.l <= U128_MAX
       /\ res.e = EMAX + 1 => (res.h = 0 /\ res.l = 0)
C19_Witness ==
  Decoded /\ op = "literal" /\ reduced /\ val.f.e = EMAX - PM1
    /\ res = Triple(val.f.s, EMAX, 0, 1)

\* C20: decode of a NaN or of an infinity panics and returns no triple;
\* decode of a finite value always returns a triple.
C20_PanicIffNotFinite ==
  Decoded
    => /\ val.f.k \in {"nan", "inf"} => res.st = "panic"
       /\ val.f.k = "fin" => res.st = "ok"
C20_Witness ==
  Decoded /\ op = "div" /\ val.f.k = "inf" /\ x.f.m > 0 /\ res = Panic

\* ------------------------------------------- properties of decode, part 2
\* The exponent decode tests against MIN_EXP_SUBNORMAL: that of the integer
\* significand, after the trailing zero bits were shifted out when reducing.
GridExp == IF reduced THEN val.f.e + TrailingZeros(val.f.m) ELSE val.f.e
\* The bits below the subnormal quantum, as a magnitude.
Remainder == Mag(val.f) % Quantum

\* C21: when the (possibly reduced) exponent is below MIN_EXP_SUBNORMAL the
\* mantissa is shifted onto the subnormal grid and incremented if and only
\* if remainder > tie, or remainder = tie and (the witness is not Greater or
\* the shifted mantissa is odd); the exponent becomes MIN_EXP_SUBNORMAL.
C21_SubnormalRoundingRule ==
  (Decoded /\ op = "literal" /\ val.f.m > 0 /\ GridExp < MIN_EXP_SUBNORMAL)
    => ResQuanta =
         (IF 2 * Remainder > Quantum
             \/ (2 * Remainder = Quantum
                   /\ (val.o # "Greater" \/ FloorQuanta % 2 = 1))
          THEN FloorQuanta + 1 ELSE FloorQuanta)
C21_Witness ==
  Decoded /\ op = "literal" /\ ~reduced /\ GridExp < MIN_EXP_SUBNORMAL
    /\ 2 * Remainder = Quantum /\ val.o = "Equal" /\ FloorQuanta = 2
    /\ res = Triple(val.f.s, MIN_EXP_SUBNORMAL, 0, 3)

\* ---------------------------------------------- properties of remainder
\* x, y and the result as integers in the unit of their smallest exponent.
RemUnit == Min(0, Min(Min(x.f.e, y.f.e), val.f.e))
RemX == x.f.m * 2^(x.f.e - RemUnit)
RemY == y.f.m * 2^(y.f.e - RemUnit)
RemVal == val.f.m * 2^(val.f.e - RemUnit)

\* C22: for finite x and nonzero finite y, x % y is the exact remainder: it
\* has the sign of x, a magnitude below |y| that differs from |x| by a whole
\* multiple of |y|, and witness Equal.
C22_RemExact ==
  (Computed /\ op = "rem" /\ y.f.m > 0)
    => /\ val.f.k = "fin"
       /\ val.f.s = x.f.s
       /\ RemVal < RemY
       /\ RemVal <= RemX
       /\ (RemX - RemVal) % RemY = 0
       /\ val.o = "Equal"
C22_Witness ==
  Computed /\ op = "rem" /\ x.f.s = 1 /\ y.f.s = 0 /\ val.f.m > 0
    /\ RemX > 2 * RemY /\ RemVal < RemY /\ val.f.s = 1 /\ val.o = "Equal"

\* What decode returns for the same value in the other reduce mode.
OtherMode == decode(val, ~reduced)

\* C23: for every finite precision-P value and every witness the triples of
\* decode(v, true) and decode(v, false) have the same sign and the same
\* value m * 2^e, are the zero triple together and the overflow sentinel
\* together, and are identical whenever the subnormal rounding discards
\* nonzero bits.
C23_ReduceKeepsValue ==
  (Decoded /\ op = "literal")
    => /\ res.st = "ok" /\ OtherMode.st = "ok"
       /\ res.s = OtherMode.s
       /\ TripleMag(res) = TripleMag(OtherMode)
       /\ IsZeroTriple(res, val.f.s) <=> IsZeroTriple(OtherMode, val.f.s)
       /\ IsSentinel(res, val.f.s) <=> IsSentinel(OtherMode, val.f.s)
       /\ Remainder # 0 => res = OtherMode
C23_Witness ==
  Decoded /\ op = "literal" /\ reduced /\ val.f.m % 2 = 0
    /\ 2 * Remainder = Quantum /\ val.o = "Greater" /\ FloorQuanta = 1
    /\ res = Triple(val.f.s, MIN_EXP_SUBNORMAL, 0, 2) /\ res = OtherMode

\* |val| is a multiple of 2^MIN_EXP_SUBNORMAL below 2^(EMAX+1); its
\* significand has P bits by construction.
Representable ==
  val.f.k = "fin" /\ Remainder = 0 /\ Mag(val.f) < Unit(EMAX + 1)

\* C24: a representable value decodes to a triple with m * 2^e = |v| for
\* every witness and both reduce modes, and the witness changes the result
\* of decode only when the discarded bits are exactly half a quantum.
C24_ExactOnRepresentable ==
  (Decoded /\ op = "literal")
    => /\ Representable
            => /\ res.st = "ok"
               /\ res.s = val.f.s
               /\ ~IsSentinel(res, val.f.s)
               /\ TripleMag(res) = Mag(val.f)
       /\ \A o \in Ordering :
            decode(FP237(val.f, o), reduced) # res => 2 * Remainder = Quantum
C24_Witness ==
  Decoded /\ op = "literal" /\ ~reduced /\ Representable /\ val.o = "Less"
    /\ val.f.e < MIN_EXP_SUBNORMAL /\ val.f.s = 1
    /\ res = Triple(1, MIN_EXP_SUBNORMAL, 0, 3) /\ Mag(val.f) = 3 * Quantum

\* The grid point at or above |val|, in quanta.
CeilQuanta == IF Remainder = 0 THEN FloorQuanta ELSE FloorQuanta + 1

\* C25: for every finite precision-P value below 2^(EMAX+1), every witness
\* and both reduce modes, the decoded magnitude is one of the two points of
\* the subnormal grid adjacent to |v| and is within half a quantum of |v|.
C25_BoundedRoundingError ==
  (Decoded /\ op = "literal" /\ Mag(val.f) < Unit(EMAX + 1))
    => /\ res.st = "ok"
       /\ TripleMag(res) \in {FloorQuanta * Quantum, CeilQuanta * Quantum}
       /\ 2 * Abs(TripleMag(res) - Mag(val.f)) <= Quantum
C25_Witness ==
  Decoded /\ op = "literal" /\ reduced /\ val.o = "Greater"
    /\ FloorQuanta = 0 /\ 2 * Remainder > Quantum
    /\ res = Triple(val.f.s, MIN_EXP_SUBNORMAL, 0, 1)
    /\ 2 * Abs(TripleMag(res) - Mag(val.f)) < Quantum

\* The magnitude decode returns for the float f carrying the witness of val,
\* in the reduce mode of the run.
DecodedMagOf(f) == TripleMag(decode(FP237(f, val.o), reduced))

\* C26: for finite precision-P values u, v with the same witness and
\* |u| <= |v| < 2^(EMAX+1), the decoded magnitude of u is at most that of v.
C26_DecodeMonotone ==
  (Decoded /\ op = "literal" /\ Mag(val.f) < Unit(EMAX + 1))
    => \A f \in FiniteFloats :
         Mag(f) <= Mag(val.f) => DecodedMagOf(f) <= TripleMag(res)
C26_Witness ==
  Decoded /\ op = "literal" /\ val.o = "Greater" /\ FloorQuanta = 2
    /\ ResQuanta = 3
    /\ \E f \in FiniteFloats :
         /\ Mag(f) < Mag(val.f)
         /\ Mag(f) > 2 * Quantum
         /\ DecodedMagOf(f) = 2 * Quantum

\* The witness that negating the exact result produces.
Mirror(o) == IF o = "Less" THEN "Greater" ELSE IF o = "Greater" THEN "Less" ELSE o
\* -val with the mirrored witness.
Negated == FP237([val.f EXCEPT !.s = 1 - val.f.s], Mirror(val.o))

\* C27: decoding -v with the mirrored witness gives the exponent and the
\* significand of decoding v with its witness, and the opposite sign bit.
C27_SignSymmetry ==
  (Decoded /\ op = "literal")
    => LET t == decode(Negated, reduced)
       IN /\ t.st = res.st
          /\ t.s = 1 - res.s
          /\ t.e = res.e /\ t.h = res.h /\ t.l = res.l

\* C28: for every finite x with any witness and both reduce modes,
\* decode(x.abs(), r) has sign 0 and the exponent and significand of
\* decode(x, r).
C28_AbsKeepsDecodedMagnitude ==
  (Decoded /\ op = "abs")
    => LET t == decode(x, reduced)
       IN /\ res.st = t.st
          /\ res.s = 0
          /\ res.e = t.e /\ res.h = t.h /\ res.l = t.l

\* C29: x == y holds if and only if x.partial_cmp(y) is Some(Equal); a fused
\* and a non-fused result that round to the same P-bit value compare equal
\* under both.
C29_EqAgreesWithOrdering ==
  pc = "compared" => (cmp.eq <=> cmp.ord = "Equal")

====
